---------------------------- MODULE Spec2Model ----------------------------
(***************************************************************************)
(* path2json worker (src/worker.js): a request path is split into          *)
(* segments, the first segment with a trigger prefix starts a candidate    *)
(* that grows one segment at a time, and six decoders are tried in order   *)
(* on every candidate until one yields a JSON object or array.             *)
(*                                                                         *)
(* Strings.  A JavaScript string is modelled as a sequence of runs         *)
(* <<cp, n>>: the code point cp repeated n >= 1 times.  Ordinary text has  *)
(* n = 1 everywhere; a run with a large n stands for a long stretch of one *)
(* character, which is what lets the 64,000 character ceiling be reached.  *)
(* Operators that look at single characters go through Rest/Flat, so they  *)
(* are defined for every run-length form of a string.                      *)
(***************************************************************************)
EXTENDS Integers, Sequences, FiniteSets, TLC

(***************************************************************************)
(* Characters                                                              *)
(***************************************************************************)
AsciiTable ==
   <<
      " ", "!", "\"", "#", "$", "%", "&", "'", "(", ")", "*", "+", ",", "-", ".", "/",
      "0", "1", "2", "3", "4", "5", "6", "7", "8", "9", ":", ";", "<", "=", ">", "?",
      "@", "A", "B", "C", "D", "E", "F", "G", "H", "I", "J", "K", "L", "M", "N", "O",
      "P", "Q", "R", "S", "T", "U", "V", "W", "X", "Y", "Z", "[", "\\", "]", "^", "_",
      "grave", "a", "b", "c", "d", "e", "f", "g", "h", "i", "j", "k", "l", "m", "n", "o",
      "p", "q", "r", "s", "t", "u", "v", "w", "x", "y", "z", "{", "|", "}", "~"
   >>

OrdTable == [c \in {AsciiTable[i] : i \in 1..Len(AsciiTable)} |->
               31 + (CHOOSE i \in 1..Len(AsciiTable) : AsciiTable[i] = c)]

\* The code point of a one-character string (printable ASCII; U+0060 is
\* written "grave").
Ord(c) == OrdTable[c]

\* A string written as a tuple of one-character strings.
Str(t) == [i \in 1..Len(t) |-> <<Ord(t[i]), 1>>]

\* n copies of the character c.
Repeat(c, n) == IF n = 0 THEN <<>> ELSE << <<Ord(c), n>> >>

\* String.fromCharCode for a sequence of code points.
FromCodes(cs) == [i \in 1..Len(cs) |-> <<cs[i], 1>>]

Upper == 65..90
Lower == 97..122
Digit == 48..57

HexDigits == Digit \cup (65..70) \cup (97..102)

HexVal(c) == IF c \in Digit THEN c - 48
             ELSE IF c \in 65..70 THEN c - 55 ELSE c - 87

LowerChar(c) == IF c \in Upper THEN c + 32 ELSE c
UpperChar(c) == IF c \in Lower THEN c - 32 ELSE c

(***************************************************************************)
(* String primitives                                                       *)
(***************************************************************************)
\* UTF-16 code units of one code point.
Units(c) == IF c >= 65536 THEN 2 ELSE 1

RECURSIVE SumUnits(_, _)
SumUnits(s, i) == IF i > Len(s) THEN 0
                  ELSE s[i][2] * Units(s[i][1]) + SumUnits(s, i + 1)

\* s.length
Length(s) == SumUnits(s, 1)

\* s without its first character.
Rest(s) == IF s[1][2] > 1 THEN << <<s[1][1], s[1][2] - 1>> >> \o Tail(s)
           ELSE Tail(s)

\* The code points of s, one per element (used on filtered, short strings).
RECURSIVE Flat(_)
Flat(s) == IF s = <<>> THEN <<>> ELSE <<s[1][1]>> \o Flat(Rest(s))

\* The first k characters of s, one run per character.
RECURSIVE Take(_, _)
Take(s, k) == IF k = 0 \/ s = <<>> THEN <<>>
              ELSE << <<s[1][1], 1>> >> \o Take(Rest(s), k - 1)

\* s without its first k characters.
RECURSIVE Drop(_, _)
Drop(s, k) == IF k = 0 \/ s = <<>> THEN s ELSE Drop(Rest(s), k - 1)

\* s.slice(0, 2)
Slice02(s) == Take(s, 2)

\* s.toLowerCase() / s.toUpperCase()
ToLowerCase(s) == [i \in 1..Len(s) |-> <<LowerChar(s[i][1]), s[i][2]>>]
ToUpperCase(s) == [i \in 1..Len(s) |-> <<UpperChar(s[i][1]), s[i][2]>>]

\* s.startsWith(prefix), prefix written with Str
StartsWith(s, prefix) == Take(s, Len(prefix)) = prefix

\* Characters of s that are in the class (s.match(/[..]/g).join("")).
KeepChars(s, class) == SelectSeq(s, LAMBDA e : e[1] \in class)

(***************************************************************************)
(* Completions.  A helper either returns a string, returns null, or throws *)
(* (URIError, DOMException, TypeError, SyntaxError).                        *)
(***************************************************************************)
Normal(t) == [kind |-> "normal", text |-> t]
Throw     == [kind |-> "throw",  text |-> <<>>]
JsNull    == [kind |-> "null",   text |-> <<>>]

\* The truthiness test of `text ? ... : fail()`: null and "" are falsy.
Truthy(r) == r.kind = "normal" /\ r.text # <<>>

\* try { ... } catch (_) { return null; }
CatchNull(c) == IF c.kind = "throw" THEN JsNull ELSE c

(***************************************************************************)
(* UTF-8                                                                   *)
(***************************************************************************)
ReplacementChar == <<65533>>

\* Continuation-byte range after the lead byte b (WHATWG Encoding, UTF-8
\* decoder: lower and upper boundary).
ContLow(b)  == IF b = 224 THEN 160 ELSE IF b = 240 THEN 144 ELSE 128
ContHigh(b) == IF b = 237 THEN 159 ELSE IF b = 244 THEN 143 ELSE 191

\* Bytes still needed after the lead byte b; 0 for ASCII, -1 for a byte
\* that cannot start a sequence.
BytesNeeded(b) == IF b <= 127 THEN 0
                  ELSE IF b \in 194..223 THEN 1
                  ELSE IF b \in 224..239 THEN 2
                  ELSE IF b \in 240..244 THEN 3 ELSE -1

LeadBits(b) == IF b \in 194..223 THEN b % 32
               ELSE IF b \in 224..239 THEN b % 16 ELSE b % 8

\* new TextDecoder("utf-8").decode(bytes): malformed input becomes U+FFFD
\* and the offending byte is read again as a lead byte.
RECURSIVE Utf8Run(_, _, _, _, _, _)
Utf8Run(b, i, need, cp, lo, hi) ==
   IF i > Len(b) THEN (IF need > 0 THEN ReplacementChar ELSE <<>>)
   ELSE IF need = 0
        THEN IF BytesNeeded(b[i]) = 0
                THEN <<b[i]>> \o Utf8Run(b, i + 1, 0, 0, 128, 191)
             ELSE IF BytesNeeded(b[i]) = -1
                THEN ReplacementChar \o Utf8Run(b, i + 1, 0, 0, 128, 191)
             ELSE Utf8Run(b, i + 1, BytesNeeded(b[i]), LeadBits(b[i]),
                          ContLow(b[i]), ContHigh(b[i]))
        ELSE IF b[i] \notin lo..hi
                THEN ReplacementChar \o Utf8Run(b, i, 0, 0, 128, 191)
             ELSE IF need = 1
                THEN <<cp * 64 + (b[i] % 64)>> \o Utf8Run(b, i + 1, 0, 0, 128, 191)
             ELSE Utf8Run(b, i + 1, need - 1, cp * 64 + (b[i] % 64), 128, 191)

\* TextDecoder drops a leading byte order mark (ignoreBOM is false).
TextDecode(bytes) ==
   LET cps == Utf8Run(bytes, 1, 0, 0, 128, 191)
   IN  FromCodes(IF cps # <<>> /\ cps[1] = 65279 THEN Tail(cps) ELSE cps)

\* utf8FromBytes: a binary string (one char code per byte) to text.
Utf8FromBytes(binStr) == TextDecode(binStr)

(***************************************************************************)
(* decodeURIComponent                                                      *)
(***************************************************************************)
\* The byte of three characters "%XX", or -1.
EscapeValue(h) ==
   IF Len(h) = 3 /\ h[1] = 37 /\ h[2] \in HexDigits /\ h[3] \in HexDigits
   THEN 16 * HexVal(h[2]) + HexVal(h[3]) ELSE -1

\* A "%XX" escape at the front of s: its byte, or -1.
EscapeByte(s) == EscapeValue(Flat(Take(s, 3)))

AfterEscape(s) == Drop(s, 3)

\* Reads the `need` continuation escapes of a multi-byte sequence whose
\* lead byte allows lo..hi for the first of them: the code point, or -1
\* where ECMAScript's Decode throws a URIError.
RECURSIVE ContinuationEscapes(_, _, _, _, _)
RECURSIVE ContinuationByte(_, _, _, _, _, _)
ContinuationEscapes(s, need, cp, lo, hi) ==
   IF need = 0 THEN [cp |-> cp, rest |-> s]
   ELSE ContinuationByte(EscapeByte(s), s, need, cp, lo, hi)

ContinuationByte(x, s, need, cp, lo, hi) ==
   IF x = -1 \/ x \notin lo..hi THEN [cp |-> -1, rest |-> s]
   ELSE ContinuationEscapes(AfterEscape(s), need - 1, cp * 64 + (x % 64), 128, 191)

RECURSIVE DecodeFrom(_, _)
RECURSIVE DecodeEscape(_, _, _)
RECURSIVE DecodeSequence(_, _)

\* The scan of decodeURIComponent: out is the text decoded so far.  37 is
\* "%".
DecodeFrom(s, out) ==
   IF s = <<>> THEN Normal(out)
   ELSE IF s[1][1] # 37 THEN DecodeFrom(Tail(s), out \o <<s[1]>>)
   ELSE DecodeEscape(EscapeByte(s), s, out)

\* x is the byte of the escape at the front of s.
DecodeEscape(x, s, out) ==
   IF x = -1 \/ BytesNeeded(x) = -1 THEN Throw
   ELSE IF BytesNeeded(x) = 0 THEN DecodeFrom(AfterEscape(s), out \o << <<x, 1>> >>)
   ELSE DecodeSequence(ContinuationEscapes(AfterEscape(s), BytesNeeded(x), LeadBits(x),
                                           ContLow(x), ContHigh(x)), out)

\* m is the outcome of reading a multi-byte sequence.
DecodeSequence(m, out) ==
   IF m.cp = -1 THEN Throw ELSE DecodeFrom(m.rest, out \o << <<m.cp, 1>> >>)

\* decodeURIComponent(s): every %XX escape replaced by the character its
\* UTF-8 bytes encode; a malformed escape throws.
DecodeURIComponent(s) == DecodeFrom(s, <<>>)

\* The same without the try/catch: the URIError escapes.
SafeDecodeURIComponentNoCatch(s) == DecodeURIComponent(s)

\* Decode but don't throw on malformed escapes.
SafeDecodeURIComponent(s) == CatchNull(DecodeURIComponent(s))

(***************************************************************************)
(* Prefix heuristics and alphabet filters.  43 is "+", 45 "-", 47 "/",     *)
(* 61 "=", 95 "_".                                                         *)
(***************************************************************************)
LooksLikeB64Prefix(s) == ToLowerCase(Slice02(s)) \in {Str(<<"e", "y">>)}

LooksLikeBase32Prefix(s) ==
   ToLowerCase(Slice02(s)) \in {Str(<<"p", "m">>), Str(<<"o", "n">>), Str(<<"e", "m">>)}

LooksLikeHexPrefix(s) == ToLowerCase(Slice02(s)) = Str(<<"7", "b">>)

Alnum == Upper \cup Lower \cup Digit

\* /[A-Za-z0-9\-_]/
B64UrlChars == Alnum \cup {45, 95}
\* /[A-Za-z0-9+/]/ : the alphabet without the padding character
B64StdAlphabet == Alnum \cup {43, 47}
\* /[A-Za-z0-9+/=]/
B64StdChars == Alnum \cup {43, 47, 61}
\* /[A-Z2-7=]/i
Base32Chars == Upper \cup Lower \cup (50..55) \cup {61}

StripNonB64Url(s) == KeepChars(s, B64UrlChars)
\* The standard filter with "=" left out of its class: /[^A-Za-z0-9+/]/g
StripNonB64StdNoPad(s) == KeepChars(s, B64StdAlphabet)
StripNonB64Std(s) == KeepChars(s, B64StdChars)
StripNonBase32(s) == KeepChars(s, Base32Chars)
StripNonHex(s)    == KeepChars(s, HexDigits)

\* Base64 padding helper (length multiple of 4).
PadBase64(s) ==
   LET rem == Length(s) % 4
   IN  IF rem # 0 THEN s \o << <<61, 4 - rem>> >> ELSE s

(***************************************************************************)
(* Decoders                                                                *)
(***************************************************************************)
B64Val(c) == IF c \in Upper THEN c - 65
             ELSE IF c \in Lower THEN c - 71
             ELSE IF c \in Digit THEN c + 4
             ELSE IF c = 43 THEN 62 ELSE 63

Pow2(n) == 2 ^ n

\* Bytes of a sequence of w-bit values read as one bit string and cut into
\* groups of 8 from the left; a trailing group of fewer than 8 bits is
\* dropped.
RECURSIVE BitGroups(_, _, _, _, _)
BitGroups(vals, w, i, acc, nbits) ==
   IF i > Len(vals) THEN <<>>
   ELSE LET a  == acc * Pow2(w) + vals[i]
            nb == nbits + w
        IN  IF nb >= 8
            THEN <<a \div Pow2(nb - 8)>>
                    \o BitGroups(vals, w, i + 1, a % Pow2(nb - 8), nb - 8)
            ELSE BitGroups(vals, w, i + 1, a, nb)

IsAsciiWhitespace(c) == c \in {9, 10, 12, 13, 32}

\* The forgiving-base64 step that removes one or two trailing "=" when the
\* length is a multiple of 4.
DropPadding(d) ==
   IF Len(d) % 4 = 0 /\ Len(d) > 0 /\ d[Len(d)] = 61
   THEN IF Len(d) > 1 /\ d[Len(d) - 1] = 61
        THEN SubSeq(d, 1, Len(d) - 2) ELSE SubSeq(d, 1, Len(d) - 1)
   ELSE d

\* The bytes of the data d left after whitespace and padding are removed.
Base64Data(d) ==
   IF Len(d) % 4 = 1 \/ \E i \in 1..Len(d) : d[i] \notin B64StdAlphabet
   THEN [kind |-> "throw", bytes |-> <<>>]
   ELSE [kind |-> "normal",
         bytes |-> BitGroups([i \in 1..Len(d) |-> B64Val(d[i])], 6, 1, 0, 0)]

\* atob(s): the binary string (one char code per byte), or a throw
\* (InvalidCharacterError).
Atob(s) ==
   Base64Data(DropPadding(SelectSeq(Flat(s), LAMBDA c : ~IsAsciiWhitespace(c))))

\* s.replace(/-/g, "+").replace(/_/g, "/")
UrlToStd(s) == [i \in 1..Len(s) |->
                  <<IF s[i][1] = 45 THEN 43
                    ELSE IF s[i][1] = 95 THEN 47 ELSE s[i][1], s[i][2]>>]

\* utf8FromBytes(b) for the outcome b of atob
BinaryToUtf8(b) == IF b.kind = "throw" THEN Throw ELSE Normal(Utf8FromBytes(b.bytes))

\* base64url -> UTF-8 text
B64UrlToUtf8(s) == CatchNull(BinaryToUtf8(Atob(PadBase64(UrlToStd(s)))))

\* standard base64 -> UTF-8 text
B64StdToUtf8(s) == CatchNull(BinaryToUtf8(Atob(PadBase64(s))))

\* s.replace(/=+$/, "") on the code points of s
RECURSIVE DropTrailingEquals(_)
DropTrailingEquals(d) ==
   IF d # <<>> /\ d[Len(d)] = 61
   THEN DropTrailingEquals(SubSeq(d, 1, Len(d) - 1)) ELSE d

\* "ABCDEFGHIJKLMNOPQRSTUVWXYZ234567".indexOf(ch)
Base32IndexOf(c) == IF c \in Upper THEN c - 65
                    ELSE IF c \in 50..55 THEN c - 24 ELSE -1

\* The bytes of the alphabet characters among the code points d.
Base32Bytes(d) ==
   BitGroups([i \in 1..Len(d) |-> Base32IndexOf(d[i])], 5, 1, 0, 0)

\* Base32 (RFC 4648) -> UTF-8 text (drops partial trailing bits); characters
\* outside the alphabet are skipped.
Base32ToUtf8(s) ==
   CatchNull(Normal(TextDecode(Base32Bytes(
      SelectSeq(DropTrailingEquals(Flat(ToUpperCase(s))),
                LAMBDA c : Base32IndexOf(c) # -1)))))

\* if (s.length % 2 !== 0) s = s.slice(0, s.length - 1)
EvenLength(d) == IF Len(d) % 2 # 0 THEN SubSeq(d, 1, Len(d) - 1) ELSE d

\* s.match(/.{2}/g).map(h => parseInt(h, 16)) and the decode: the match is
\* null for a string shorter than two characters, and .map on null throws.
HexPairs(d) ==
   IF Len(d) < 2 THEN Throw
   ELSE Normal(TextDecode([i \in 1..(Len(d) \div 2) |->
                             16 * HexVal(d[2 * i - 1]) + HexVal(d[2 * i])]))

\* Hex string -> UTF-8 text (truncate odd nibble).
HexToUtf8(s) == CatchNull(HexPairs(EvenLength(Flat(s))))

(***************************************************************************)
(* JSON.parse (ECMA-404 grammar).  A value is [kind, v]: v is the text of  *)
(* a string, the lexeme of a number or literal, the elements of an array,  *)
(* or the <<key, value>> members of an object in insertion order (a        *)
(* repeated key keeps its place and takes the last value).                 *)
(* Characters are written as code points: 34 is the double quote, 44 the   *)
(* comma, 45 "-", 46 ".", 58 ":", 91 "[", 92 the backslash, 93 "]",        *)
(* 123 "{", 125 "}".                                                       *)
(***************************************************************************)
NoValue == [kind |-> "undefined", v |-> <<>>]

ParseFail == [ok |-> FALSE, val |-> NoValue, rest |-> <<>>]
ParseOk(val, rest) == [ok |-> TRUE, val |-> val, rest |-> rest]

IsJsonWhitespace(c) == c \in {9, 10, 13, 32}

RECURSIVE SkipWs(_)
SkipWs(s) == IF s # <<>> /\ IsJsonWhitespace(s[1][1]) THEN SkipWs(Tail(s)) ELSE s

\* Whether s starts with the character c.
NextIs(s, c) == s # <<>> /\ s[1][1] = c

\* The longest run of digits at the front of s.
RECURSIVE DigitSpan(_, _)
DigitSpan(s, acc) ==
   IF s # <<>> /\ s[1][1] \in Digit THEN DigitSpan(Tail(s), acc \o <<s[1]>>)
   ELSE [digits |-> acc, rest |-> s]

\* ([eE][+-]?[0-9]+)? after the lexeme lex
NumberExponent(lex, s) ==
   IF NextIs(s, 101) \/ NextIs(s, 69)                       \* e E
   THEN IF NextIs(Rest(s), 43) \/ NextIs(Rest(s), 45)       \* + -
        THEN IF DigitSpan(Drop(s, 2), <<>>).digits = <<>> THEN ParseFail
             ELSE ParseOk([kind |-> "number",
                           v |-> lex \o Take(s, 2) \o DigitSpan(Drop(s, 2), <<>>).digits],
                          DigitSpan(Drop(s, 2), <<>>).rest)
        ELSE IF DigitSpan(Rest(s), <<>>).digits = <<>> THEN ParseFail
             ELSE ParseOk([kind |-> "number",
                           v |-> lex \o Take(s, 1) \o DigitSpan(Rest(s), <<>>).digits],
                          DigitSpan(Rest(s), <<>>).rest)
   ELSE ParseOk([kind |-> "number", v |-> lex], s)

\* (\.[0-9]+)? after the lexeme lex
NumberFraction(lex, s) ==
   IF NextIs(s, 46)
   THEN IF DigitSpan(Rest(s), <<>>).digits = <<>> THEN ParseFail
        ELSE NumberExponent(lex \o Take(s, 1) \o DigitSpan(Rest(s), <<>>).digits,
                            DigitSpan(Rest(s), <<>>).rest)
   ELSE NumberExponent(lex, s)

\* (0 | [1-9][0-9]*) after the sign
NumberInteger(sign, s) ==
   IF NextIs(s, 48) THEN NumberFraction(sign \o Take(s, 1), Rest(s))
   ELSE IF DigitSpan(s, <<>>).digits = <<>> THEN ParseFail
   ELSE NumberFraction(sign \o DigitSpan(s, <<>>).digits, DigitSpan(s, <<>>).rest)

\* number: -? (0 | [1-9][0-9]*) (\.[0-9]+)? ([eE][+-]?[0-9]+)?
ParseNumber(s) ==
   IF NextIs(s, 45) THEN NumberInteger(Take(s, 1), Rest(s)) ELSE NumberInteger(<<>>, s)

\* The character a single-letter escape stands for, or -1:
\* \" \\ \/ stand for themselves, \b \f \n \r \t for control characters.
EscapeChar(c) ==
   IF c \in {34, 92, 47} THEN c
   ELSE IF c = 98 THEN 8
   ELSE IF c = 102 THEN 12
   ELSE IF c = 110 THEN 10
   ELSE IF c = 114 THEN 13
   ELSE IF c = 116 THEN 9 ELSE -1

Hex4Value(h) ==
   IF Len(h) = 4 /\ \A i \in 1..4 : h[i] \in HexDigits
   THEN 4096 * HexVal(h[1]) + 256 * HexVal(h[2]) + 16 * HexVal(h[3]) + HexVal(h[4])
   ELSE -1

\* The code unit of the four hex digits at the front of s, or -1.
Hex4(s) == Hex4Value(Flat(Take(s, 4)))

\* The characters of a string after its opening quote, up to the closing
\* quote; acc is the text read so far.
RECURSIVE ParseStringBody(_, _)
RECURSIVE StringEscape(_, _)
ParseStringBody(s, acc) ==
   IF s = <<>> THEN ParseFail
   ELSE IF s[1][1] = 34 THEN ParseOk([kind |-> "string", v |-> acc], Rest(s))
   ELSE IF s[1][1] = 92 THEN StringEscape(Rest(s), acc)
   ELSE IF s[1][1] < 32 THEN ParseFail
   ELSE ParseStringBody(Tail(s), acc \o <<s[1]>>)

\* The escape whose backslash was just read: \uXXXX or a single letter.
StringEscape(r, acc) ==
   IF r = <<>> THEN ParseFail
   ELSE IF r[1][1] = 117
      THEN IF Hex4(Rest(r)) = -1 THEN ParseFail
           ELSE ParseStringBody(Drop(r, 5), acc \o << <<Hex4(Rest(r)), 1>> >>)
   ELSE IF EscapeChar(r[1][1]) = -1 THEN ParseFail
   ELSE ParseStringBody(Rest(r), acc \o << <<EscapeChar(r[1][1]), 1>> >>)

LitTrue  == FromCodes(<<116, 114, 117, 101>>)          \* true
LitFalse == FromCodes(<<102, 97, 108, 115, 101>>)      \* false
LitNull  == FromCodes(<<110, 117, 108, 108>>)          \* null

\* true, false or null
ParseLiteral(s) ==
   IF StartsWith(s, LitTrue)
   THEN ParseOk([kind |-> "boolean", v |-> LitTrue], Drop(s, 4))
   ELSE IF StartsWith(s, LitFalse)
   THEN ParseOk([kind |-> "boolean", v |-> LitFalse], Drop(s, 5))
   ELSE IF StartsWith(s, LitNull)
   THEN ParseOk([kind |-> "null", v |-> <<>>], Drop(s, 4))
   ELSE ParseFail

\* members with the value of key set to val
SetMember(members, key, val) ==
   IF \E i \in 1..Len(members) : members[i][1] = key
   THEN [i \in 1..Len(members) |->
           IF members[i][1] = key THEN <<key, val>> ELSE members[i]]
   ELSE Append(members, <<key, val>>)

RECURSIVE ParseValue(_)
RECURSIVE ValueAt(_)
RECURSIVE ParseMembers(_, _)
RECURSIVE MemberValue(_, _)
RECURSIVE MemberEnd(_, _, _)
RECURSIVE ParseElements(_, _)
RECURSIVE ElementEnd(_, _)

\* value: leading whitespace, then an object, array, string, number or
\* literal.
ParseValue(s) == ValueAt(SkipWs(s))

ValueAt(s) ==
   IF s = <<>> THEN ParseFail
   ELSE IF s[1][1] = 123
      THEN IF NextIs(SkipWs(Rest(s)), 125)
           THEN ParseOk([kind |-> "object", v |-> <<>>], Rest(SkipWs(Rest(s))))
           ELSE ParseMembers(SkipWs(Rest(s)), <<>>)
   ELSE IF s[1][1] = 91
      THEN IF NextIs(SkipWs(Rest(s)), 93)
           THEN ParseOk([kind |-> "array", v |-> <<>>], Rest(SkipWs(Rest(s))))
           ELSE ParseElements(Rest(s), <<>>)
   ELSE IF s[1][1] = 34 THEN ParseStringBody(Rest(s), <<>>)
   ELSE IF s[1][1] = 45 \/ s[1][1] \in Digit THEN ParseNumber(s)
   ELSE ParseLiteral(s)

\* "key" : value ( , "key" : value )* }   with s at the first key
ParseMembers(s, acc) ==
   IF ~NextIs(s, 34) THEN ParseFail
   ELSE MemberValue(ParseStringBody(Rest(s), <<>>), acc)

\* k is the parsed key: a colon and the value follow.
MemberValue(k, acc) ==
   IF ~k.ok \/ ~NextIs(SkipWs(k.rest), 58) THEN ParseFail
   ELSE MemberEnd(k.val.v, ParseValue(Rest(SkipWs(k.rest))), acc)

\* x is the parsed value of key: a comma or the closing brace follows.
MemberEnd(key, x, acc) ==
   IF ~x.ok THEN ParseFail
   ELSE IF NextIs(SkipWs(x.rest), 44)
      THEN ParseMembers(SkipWs(Rest(SkipWs(x.rest))), SetMember(acc, key, x.val))
   ELSE IF NextIs(SkipWs(x.rest), 125)
      THEN ParseOk([kind |-> "object", v |-> SetMember(acc, key, x.val)],
                   Rest(SkipWs(x.rest)))
   ELSE ParseFail

\* value ( , value )* ]
ParseElements(s, acc) == ElementEnd(ParseValue(s), acc)

\* x is the parsed element: a comma or the closing bracket follows.
ElementEnd(x, acc) ==
   IF ~x.ok THEN ParseFail
   ELSE IF NextIs(SkipWs(x.rest), 44)
      THEN ParseElements(Rest(SkipWs(x.rest)), Append(acc, x.val))
   ELSE IF NextIs(SkipWs(x.rest), 93)
      THEN ParseOk([kind |-> "array", v |-> Append(acc, x.val)], Rest(SkipWs(x.rest)))
   ELSE ParseFail

\* The whole text must be one value followed by whitespace only.
WholeText(x) ==
   IF x.ok /\ SkipWs(x.rest) = <<>> THEN [ok |-> TRUE, val |-> x.val]
   ELSE [ok |-> FALSE, val |-> NoValue]

\* JSON.parse(text): the value, or a SyntaxError (ok = FALSE).
JsonParse(text) == WholeText(ParseValue(text))

\* typeof val
TypeOf(val) == IF val.kind \in {"object", "array", "null"} THEN "object" ELSE val.kind

\* Whether a number lexeme denotes 0 or -0: no digit 1-9 in its mantissa.
RECURSIVE MantissaIsZero(_)
MantissaIsZero(lex) ==
   lex = <<>> \/ lex[1][1] \in {101, 69}
   \/ (lex[1][1] \notin 49..57 /\ MantissaIsZero(Tail(lex)))

\* ToBoolean(val)
ValueTruthy(val) ==
   IF val.kind = "null" THEN FALSE
   ELSE IF val.kind = "boolean" THEN val.v = LitTrue
   ELSE IF val.kind = "number" THEN ~MantissaIsZero(val.v)
   ELSE IF val.kind = "string" THEN val.v # <<>>
   ELSE TRUE

(***************************************************************************)
(* Parser attempts                                                         *)
(***************************************************************************)
\* Uniform failure shape for parser attempts.
Fail == [ok |-> FALSE, value |-> NoValue, rawText |-> <<>>]

\* if (val && typeof val === "object") return { ok: true, value: val, rawText }
\* for the outcome r of JSON.parse; a SyntaxError is caught.
AcceptObject(r, rawText) ==
   IF r.ok /\ ValueTruthy(r.val) /\ TypeOf(r.val) = "object"
   THEN [ok |-> TRUE, value |-> r.val, rawText |-> rawText]
   ELSE Fail

\* The same with the type test left out: any parsed value is accepted.
AcceptAnyValue(r, rawText) ==
   IF r.ok THEN [ok |-> TRUE, value |-> r.val, rawText |-> rawText] ELSE Fail

ParseJsonAnyValue(text, rawText) == AcceptAnyValue(JsonParse(text), rawText)

\* Parse JSON and ensure an object/array (ignore primitives).
ParseJson(text, rawText) == AcceptObject(JsonParse(text), rawText)

\* An exception that leaves an attempt uncaught.
Uncaught == [ok |-> FALSE, value |-> [kind |-> "exception", v |-> <<>>], rawText |-> <<>>]

\* const text = ...; return text ? parseJson(text, text) : fail();
FromText(c) == IF c.kind = "throw" THEN Uncaught
               ELSE IF Truthy(c) THEN ParseJson(c.text, c.text) ELSE Fail

\* 1) URL-decoded -> JSON
TryUrlDecoded(input) == FromText(SafeDecodeURIComponent(input))

\* 2) Raw JSON as-is
TryRaw(input) == ParseJson(input, input)

\* 3) base64url
B64UrlAttempt(raw) ==
   IF ~LooksLikeB64Prefix(raw) THEN Fail ELSE FromText(B64UrlToUtf8(raw))
TryB64Url(input) == B64UrlAttempt(StripNonB64Url(input))

\* 4) Standard base64
B64StdAttempt(raw) ==
   IF ~LooksLikeB64Prefix(raw) THEN Fail ELSE FromText(B64StdToUtf8(raw))
TryB64Std(input) == B64StdAttempt(StripNonB64Std(input))

\* 5) Base32
Base32Attempt(raw) ==
   IF ~LooksLikeBase32Prefix(raw) THEN Fail ELSE FromText(Base32ToUtf8(raw))
TryBase32(input) == Base32Attempt(StripNonBase32(input))

\* 6) Hex-encoded UTF-8
HexAttempt(raw) ==
   IF ~LooksLikeHexPrefix(raw) THEN Fail ELSE FromText(HexToUtf8(raw))
TryHex(input) == HexAttempt(StripNonHex(input))

NumAttempts == 6

\* The attempts with base64url pushed before the URL-decoded attempt.
AttemptAtB64First(k, input) ==
   CASE k = 1 -> TryB64Url(input)
     [] k = 2 -> TryRaw(input)
     [] k = 3 -> TryUrlDecoded(input)
     [] k = 4 -> TryB64Std(input)
     [] k = 5 -> TryBase32(input)
     [] k = 6 -> TryHex(input)

\* attempts[k - 1](): the k-th closure pushed by tryParseJson.
AttemptAt(k, input) ==
   CASE k = 1 -> TryUrlDecoded(input)
     [] k = 2 -> TryRaw(input)
     [] k = 3 -> TryB64Url(input)
     [] k = 4 -> TryB64Std(input)
     [] k = 5 -> TryBase32(input)
     [] k = 6 -> TryHex(input)

(***************************************************************************)
(* fetch: path splitting, start detection, responses                       *)
(***************************************************************************)
\* "/"
Slash == 47

\* s.replace(/^\/+|\/+$/g, "")
RECURSIVE TrimLeft(_)
TrimLeft(s) == IF s # <<>> /\ s[1][1] = Slash THEN TrimLeft(Tail(s)) ELSE s
RECURSIVE TrimRight(_)
TrimRight(s) == IF s # <<>> /\ s[Len(s)][1] = Slash
                THEN TrimRight(SubSeq(s, 1, Len(s) - 1)) ELSE s
TrimSlashes(s) == TrimRight(TrimLeft(s))

\* s.split("/"): cur is the piece being read, acc the pieces before it.
RECURSIVE SplitFrom(_, _, _)
SplitFrom(s, cur, acc) ==
   IF s = <<>> THEN Append(acc, cur)
   ELSE IF s[1][1] = Slash THEN SplitFrom(Rest(s), <<>>, Append(acc, cur))
   ELSE SplitFrom(Tail(s), cur \o <<s[1]>>, acc)
Split(s) == SplitFrom(s, <<>>, <<>>)

\* url.pathname.replace(/^\/+|\/+$/g, "").split("/").filter(Boolean)
PathParts(pathname) == SelectSeq(Split(TrimSlashes(pathname)), LAMBDA p : p # <<>>)

RootPaths == {Str(<<"/">>),
              Str(<<"/", "i", "n", "d", "e", "x", ".", "h", "t", "m", "l">>)}

StartPrefixes == {Str(<<"{">>), Str(<<"%", "7", "b">>), Str(<<"7", "b">>),
                  Str(<<"p", "m">>), Str(<<"e", "y">>)}

\* START_PREFIXES.some(prefix => p.startsWith(prefix)), compared as written
\* (no toLowerCase).
HasStartPrefixCaseSensitive(part) == \E prefix \in StartPrefixes : StartsWith(part, prefix)

\* p = parts[i].toLowerCase(); START_PREFIXES.some(prefix => p.startsWith(prefix))
HasStartPrefix(part) ==
   \E prefix \in StartPrefixes : StartsWith(ToLowerCase(part), prefix)

\* The loop of lines 35-42 from index i (0-based): the first matching
\* index, or -1.
RECURSIVE FirstStartFrom(_, _)
FirstStartFrom(ps, i) ==
   IF i >= Len(ps) THEN -1
   ELSE IF HasStartPrefix(ps[i + 1]) THEN i
   ELSE FirstStartFrom(ps, i + 1)

\* The same loop without its break: the last matching index wins.
RECURSIVE LastStartFrom(_, _, _)
LastStartFrom(ps, i, found) ==
   IF i >= Len(ps) THEN found
   ELSE LastStartFrom(ps, i + 1, IF HasStartPrefix(ps[i + 1]) THEN i ELSE found)
FindStartIdxNoBreak(ps) == LastStartFrom(ps, 0, -1)

FindStartIdx(ps) == FirstStartFrom(ps, 0)

\* accumulated ? `${accumulated}/${part}` : part, with the separator left out
NextAccumulatedNoSlash(acc, part) == acc \o part

\* accumulated ? `${accumulated}/${part}` : part
NextAccumulated(acc, part) ==
   IF acc # <<>> THEN acc \o << <<Slash, 1>> >> \o part ELSE part

\* The loop condition of line 50, stopping one segment early.
LoopContinuesShort(e, ps) == e < Len(ps) - 1

\* endIdx < parts.length
LoopContinues(e, ps) == e < Len(ps)

MaxPayload == 64000

\* The size test with >= in place of >.
TooLargeInclusive(rawText) == Length(rawText) >= MaxPayload

\* parsed.rawText.length > 64_000
TooLarge(rawText) == Length(rawText) > MaxPayload

JsonMaxAge == 86400
JsonSMaxAge == 86400
LandingMaxAge == 3600
LandingSMaxAge == 86400

\* json(body, status): `error` is the message of an { error } body ("" for
\* none), `value` the echoed JSON value.
Json(err, value, status) ==
   [status |-> status, contentType |-> "application/json; charset=utf-8",
    cachePublic |-> TRUE, immutable |-> TRUE,
    maxAge |-> JsonMaxAge, sMaxAge |-> JsonSMaxAge,
    cors |-> TRUE, error |-> err, value |-> value]

\* new Response(html, { headers: content-type, cache-control })
LandingResponse ==
   [status |-> 200, contentType |-> "text/html; charset=utf-8",
    cachePublic |-> TRUE, immutable |-> FALSE,
    maxAge |-> LandingMaxAge, sMaxAge |-> LandingSMaxAge,
    cors |-> FALSE, error |-> "", value |-> NoValue]

\* new Response(null, { headers: corsHeaders() }); -1 is "no cache-control"
PreflightResponse ==
   [status |-> 200, contentType |-> "",
    cachePublic |-> FALSE, immutable |-> FALSE, maxAge |-> -1, sMaxAge |-> -1,
    cors |-> TRUE, error |-> "", value |-> NoValue]

NoResponse ==
   [status |-> 0, contentType |-> "",
    cachePublic |-> FALSE, immutable |-> FALSE, maxAge |-> -1, sMaxAge |-> -1,
    cors |-> FALSE, error |-> "", value |-> NoValue]

(***************************************************************************)
(* Requests.  Path segments as they appear in url.pathname.                *)
(***************************************************************************)
\* %7B%22a%22%3A1%7D   (encodeURIComponent of {"a":1})
SegPercent ==
   Str(<<"%", "7", "B", "%", "2", "2", "a", "%", "2", "2", "%", "3", "A", "1", "%", "7", "D">>)

\* %7b%22b%22%3a2%7d   (the same for {"b":2} with lower-case escapes)
SegPercentLc ==
   Str(<<"%", "7", "b", "%", "2", "2", "b", "%", "2", "2", "%", "3", "a", "2", "%", "7", "d">>)

\* eyJhIjoxfQ   (base64url of {"a":1}, unpadded)
SegB64Url ==
   Str(<<"e", "y", "J", "h", "I", "j", "o", "x", "f", "Q">>)

\* eyI+IjoxfQ==   (standard base64 of {">":1}, padded)
SegB64Std ==
   Str(<<"e", "y", "I", "+", "I", "j", "o", "x", "f", "Q", "=", "=">>)

\* eyI+=IjoxfQ   (the same with a "=" in the middle)
SegB64StdMidPad ==
   Str(<<"e", "y", "I", "+", "=", "I", "j", "o", "x", "f", "Q">>)

\* PMRGCIR2GF6Q====   (base32 of {"a":1})
SegBase32 ==
   Str(<<"P", "M", "R", "G", "C", "I", "R", "2", "G", "F", "6", "Q", "=", "=", "=", "=">>)

\* 7b2261223a317d   (hex of {"a":1})
SegHex ==
   Str(<<"7", "b", "2", "2", "6", "1", "2", "2", "3", "a", "3", "1", "7", "d">>)

\* 7B2261223A317D5   (upper-case hex of {"a":1} with an odd trailing nibble)
SegHexUpper ==
   Str(<<"7", "B", "2", "2", "6", "1", "2", "2", "3", "A", "3", "1", "7", "D", "5">>)

\* client.json   (no trigger prefix)
SegPlain ==
   Str(<<"c", "l", "i", "e", "n", "t", ".", "j", "s", "o", "n">>)

\* not-json-at-all   (no trigger prefix)
SegNotJson ==
   Str(<<"n", "o", "t", "-", "j", "s", "o", "n", "-", "a", "t", "-", "a", "l", "l">>)

\* eyZZZ   (trigger prefix, decodes to nothing)
SegJunkEy ==
   Str(<<"e", "y", "Z", "Z", "Z">>)

\* eyJhIjoxfQ%   (base64url of {"a":1} followed by a malformed escape)
SegBadEscape ==
   Str(<<"e", "y", "J", "h", "I", "j", "o", "x", "f", "Q", "%">>)

\* eyJh   (first half of eyJhIjoxfQ)
SegHalfA ==
   Str(<<"e", "y", "J", "h">>)

\* IjoxfQ   (second half of eyJhIjoxfQ)
SegHalfB ==
   Str(<<"I", "j", "o", "x", "f", "Q">>)

\* %7B%22a%22%3A%22x   (encoded {"a":"x/y"} up to its slash)
SegSlashA ==
   Str(<<"%", "7", "B", "%", "2", "2", "a", "%", "2", "2", "%", "3", "A", "%", "2", "2", "x">>)

\* y%22%7D   (encoded {"a":"x/y"} after its slash)
SegSlashB ==
   Str(<<"y", "%", "2", "2", "%", "7", "D">>)

\* index.html   (the landing page name)
SegIndex ==
   Str(<<"i", "n", "d", "e", "x", ".", "h", "t", "m", "l">>)


\* %7B%22 ~...~ %22%3A1%7D : encodeURIComponent of {"~...~":1} with a key of
\* n tildes; the decoded text has n + 6 characters.
SegLongKey(n) ==
   Str(<<"%", "7", "B", "%", "2", "2">>) \o Repeat("~", n)
      \o Str(<<"%", "2", "2", "%", "3", "A", "1", "%", "7", "D">>)

\* Decoded text of exactly MaxPayload characters, and of one more.
SegAtCeiling   == SegLongKey(MaxPayload - 6)
SegOverCeiling == SegLongKey(MaxPayload - 5)

\* Segments combined freely into paths of up to MaxSegments segments; the
\* empty segment gives paths with "//".
CoreSegments ==
   {<<>>, SegPercent, SegB64Url, SegHex, SegPlain, SegJunkEy, SegHalfA, SegHalfB}

AllSegments ==
   CoreSegments \cup
   {SegPercentLc, SegB64Std, SegB64StdMidPad, SegBase32, SegHexUpper, SegNotJson,
    SegBadEscape, SegSlashA, SegSlashB, SegIndex, SegAtCeiling, SegOverCeiling}

MaxSegments == 2

\* Further paths: every segment alone, and the multi-segment cases.
ScenarioPaths ==
   {<<x>> : x \in AllSegments} \cup
   {<<SegHex, SegPlain>>, <<SegSlashA, SegSlashB>>, <<SegPlain, SegSlashA, SegSlashB>>,
    <<SegJunkEy, SegPercentLc>>, <<SegPlain, SegNotJson, SegPercentLc>>,
    <<SegOverCeiling, SegPercent>>, <<SegJunkEy, SegAtCeiling>>,
    <<SegNotJson, SegB64StdMidPad, SegB64Std>>, <<SegBadEscape, SegPlain>>,
    <<SegHalfA, <<>>, SegHalfB, SegPlain>>, <<SegPlain, SegHexUpper, SegJunkEy>>,
    <<SegIndex, SegBase32>>, <<SegPlain, SegPercent, SegB64Url>>}

SegmentLists ==
   UNION {[1..n -> CoreSegments] : n \in 0..MaxSegments} \cup ScenarioPaths

\* "/" followed by the segments joined with "/".
RECURSIVE JoinFrom(_, _)
JoinFrom(segs, i) ==
   IF i > Len(segs) THEN <<>>
   ELSE (IF i > 1 THEN << <<Slash, 1>> >> ELSE <<>>) \o segs[i] \o JoinFrom(segs, i + 1)
Join(segs) == JoinFrom(segs, 1)

Pathnames == {<< <<Slash, 1>> >> \o Join(segs) : segs \in SegmentLists}

Methods == {"GET", "HEAD", "POST", "OPTIONS"}

(***************************************************************************)
(* State                                                                   *)
(***************************************************************************)
VARIABLES
   method,       \* request.method
   pathname,     \* url.pathname
   pc,           \* position in fetch / tryParseJson
   parts,        \* the non-empty path segments
   startIdx,     \* index (0-based) of the first trigger segment, or -1
   endIdx,       \* loop variable of the accumulation loop (0-based)
   accumulated,  \* the candidate
   attempt,      \* 1-based position in the attempts array
   parsed,       \* the result tryParseJson returned
   response,     \* the Response of fetch
   tried         \* history: <<endIdx, attempt, ok>> of every attempt run

vars == <<method, pathname, pc, parts, startIdx, endIdx, accumulated, attempt,
          parsed, response, tried>>

Init ==
   /\ method \in Methods
   /\ pathname \in Pathnames
   /\ pc = "start"
   /\ parts = <<>>
   /\ startIdx = -1
   /\ endIdx = 0
   /\ accumulated = <<>>
   /\ attempt = 1
   /\ parsed = Fail
   /\ response = NoResponse
   /\ tried = <<>>

Respond(r) ==
   /\ response' = r
   /\ pc' = "done"

\* Preflight: allow CORS pre-checks to return quickly.
Preflight ==
   /\ pc = "start"
   /\ method = "OPTIONS"
   /\ Respond(PreflightResponse)
   /\ UNCHANGED <<method, pathname, parts, startIdx, endIdx, accumulated, attempt,
                  parsed, tried>>

\* Reject non-read methods early.
MethodNotAllowed ==
   /\ pc = "start"
   /\ method \notin {"OPTIONS", "GET", "HEAD"}
   /\ Respond(Json("Method not allowed", NoValue, 405))
   /\ UNCHANGED <<method, pathname, parts, startIdx, endIdx, accumulated, attempt,
                  parsed, tried>>

\* Split path into clean segments.
SplitPath ==
   /\ pc = "start"
   /\ method \in {"GET", "HEAD"}
   /\ parts' = PathParts(pathname)
   /\ pc' = "route"
   /\ UNCHANGED <<method, pathname, startIdx, endIdx, accumulated, attempt,
                  parsed, response, tried>>

\* Serve the landing page for root or explicit /index.html.
Landing ==
   /\ pc = "route"
   /\ pathname \in RootPaths
   /\ Respond(LandingResponse)
   /\ UNCHANGED <<method, pathname, parts, startIdx, endIdx, accumulated, attempt,
                  parsed, tried>>

\* Find the first segment that looks like the start of an encoded JSON blob;
\* no plausible start fails fast.
FindStart ==
   /\ pc = "route"
   /\ pathname \notin RootPaths
   /\ startIdx' = FindStartIdx(parts)
   /\ IF startIdx' = -1
      THEN /\ Respond(Json("No JSON-like segment found", NoValue, 400))
           /\ UNCHANGED <<endIdx, accumulated>>
      ELSE /\ pc' = "loop"
           /\ endIdx' = startIdx'
           /\ accumulated' = <<>>
           /\ UNCHANGED response
   /\ UNCHANGED <<method, pathname, parts, attempt, parsed, tried>>

\* One pass through the head of the accumulation loop, up to the call of
\* tryParseJson.
Accumulate ==
   /\ pc = "loop"
   /\ LoopContinues(endIdx, parts)
   /\ accumulated' = NextAccumulated(accumulated, parts[endIdx + 1])
   /\ attempt' = 1
   /\ pc' = "try"
   /\ UNCHANGED <<method, pathname, parts, startIdx, endIdx, parsed, response, tried>>

\* One pass through `for (const f of attempts)`: run the next attempt, return
\* on success, return fail() after the last one.  An exception leaving the
\* attempt leaves tryParseJson and fetch.
AttemptReturned(r) ==
   /\ tried' = Append(tried, <<endIdx, attempt, r.ok>>)
   /\ IF r = Uncaught
      THEN pc' = "uncaught" /\ UNCHANGED <<parsed, attempt>>
      ELSE IF r.ok
      THEN parsed' = r /\ pc' = "check" /\ UNCHANGED attempt
      ELSE IF attempt = NumAttempts
      THEN parsed' = Fail /\ pc' = "check" /\ UNCHANGED attempt
      ELSE attempt' = attempt + 1 /\ UNCHANGED <<parsed, pc>>

RunAttempt ==
   /\ pc = "try"
   /\ AttemptReturned(AttemptAt(attempt, accumulated))
   /\ UNCHANGED <<method, pathname, parts, startIdx, endIdx, accumulated, response>>

\* if (parsed.ok) { 413 when too large, else echo }; otherwise endIdx++.
CheckParsed ==
   /\ pc = "check"
   /\ IF parsed.ok
      THEN /\ IF TooLarge(parsed.rawText)
              THEN Respond(Json("Payload too large", NoValue, 413))
              ELSE Respond(Json("", parsed.value, 200))
           /\ UNCHANGED endIdx
      ELSE /\ endIdx' = endIdx + 1
           /\ pc' = "loop"
           /\ UNCHANGED response
   /\ UNCHANGED <<method, pathname, parts, startIdx, accumulated, attempt, parsed, tried>>

\* Exhausted all accumulations without success.
Exhausted ==
   /\ pc = "loop"
   /\ ~LoopContinues(endIdx, parts)
   /\ Respond(Json("Could not parse a valid JSON document from the path", NoValue, 400))
   /\ UNCHANGED <<method, pathname, parts, startIdx, endIdx, accumulated, attempt,
                  parsed, tried>>

Next ==
   \/ Preflight
   \/ MethodNotAllowed
   \/ SplitPath
   \/ Landing
   \/ FindStart
   \/ Accumulate
   \/ RunAttempt
   \/ CheckParsed
   \/ Exhausted

Spec == Init /\ [][Next]_vars

(***************************************************************************)
(* tryParseJson on its own: the attempts loop started on an arbitrary      *)
(* candidate string.                                                       *)
(***************************************************************************)
\* Candidates chosen for the attempts they reach.
NamedCandidates ==
   {Str(<<"{", "\"", "a", "\"", ":", "1", "}">>),   \* {"a":1}
    Str(<<"[", "1", ",", "2", "]">>),   \* [1,2]
    Str(<<"4", "2">>),   \* 42
    Str(<<"\"", "h", "e", "l", "l", "o", "\"">>),   \* "hello"
    Str(<<"n", "u", "l", "l">>),   \* null
    Str(<<"t", "r", "u", "e">>),   \* true
    Str(<<"%", "2", "2", "h", "e", "l", "l", "o", "%", "2", "2">>),   \* %22hello%22
    Str(<<"%", "2", "0", "4", "2">>),   \* %2042
    Str(<<"%", "7", "B", "%", "2">>),   \* %7B%2
    Str(<<"{", "\"", "a", "\"", ":", "\"", "%", "\"", "}">>),   \* {"a":"%"}
    Str(<<"{", "\"", "e", "y", "J", "h", "I", "j", "o", "x", "f", "S", "A", "g", "I", "C", "A", "g", "\"", ":", "{", "}", "}">>),   \* {"eyJhIjoxfSAgICAg":{}}
    Str(<<"e", "y", "I", "-", "I", "j", "o", "x", "f", "Q">>),   \* eyI-IjoxfQ
    Str(<<"e", "y", "I", "+", "I", "j", "o", "x", "f", "Q">>),   \* eyI+IjoxfQ
    Str(<<"p", "m", "r", "g", "c", "i", "r", "2", "g", "f", "6", "q">>),   \* pmrgcir2gf6q
    Str(<<"p", "m", "z", "z">>),   \* pmzz
    Str(<<"7", "b", "-", "2", "2", "-", "6", "1", "-", "2", "2", "-", "3", "a", "-", "3", "1", "-", "7", "d">>),   \* 7b-22-61-22-3a-31-7d
    Str(<<"7", "b">>),   \* 7b
    Str(<<"a", "b", "c">>)}   \* abc

\* Every string of up to MaxCandidateLen characters over [ ] { } 1 "
CandidateChars == {"[", "]", "{", "}", "1", "\""}

MaxCandidateLen == 3

ShortCandidates ==
   {Str(t) : t \in UNION {[1..n -> CandidateChars] : n \in 1..MaxCandidateLen}}

Candidates == ShortCandidates \cup (AllSegments \ {<<>>}) \cup NamedCandidates

InitTry ==
   /\ method = "GET"
   /\ pathname = <<>>
   /\ pc = "try"
   /\ parts = <<>>
   /\ startIdx = 0
   /\ endIdx = 0
   /\ accumulated \in Candidates
   /\ attempt = 1
   /\ parsed = Fail
   /\ response = NoResponse
   /\ tried = <<>>

NextTry == RunAttempt

SpecTry == InitTry /\ [][NextTry]_vars

(***************************************************************************)
(* Properties                                                              *)
(***************************************************************************)
\* The six decode attempts in the order the specification lists them.
OrderedAttempts(input) ==
   <<TryUrlDecoded(input), TryRaw(input), TryB64Url(input),
     TryB64Std(input), TryBase32(input), TryHex(input)>>

\* The result the ordered attempts rs give: the first success, else failure.
FirstSuccess(rs) ==
   IF \E k \in 1..Len(rs) : rs[k].ok
   THEN rs[CHOOSE k \in 1..Len(rs) : rs[k].ok /\ \A j \in 1..(k - 1) : ~rs[j].ok]
   ELSE Fail

\* Attempts 1..n were run in this order on the candidate, and only the last
\* of them may have succeeded.
RanInOrder(rs, n) ==
   /\ Len(tried) = n
   /\ \A i \in 1..n : tried[i][2] = i /\ tried[i][3] = rs[i].ok
   /\ \A i \in 1..(n - 1) : ~rs[i].ok

C1_Ordered(rs) ==
   /\ pc = "try"   => RanInOrder(rs, attempt - 1) /\ \A i \in 1..(attempt - 1) : ~rs[i].ok
   /\ pc = "check" => /\ parsed = FirstSuccess(rs)
                      /\ RanInOrder(rs, Len(tried))
                      /\ (parsed.ok <=> rs[Len(tried)].ok)
                      /\ (~parsed.ok => Len(tried) = 6)
                      /\ (rs[1].ok => parsed = rs[1] /\ Len(tried) = 1)

\* C1: tryParseJson runs the attempts in the order percent-decode, raw,
\* base64url, standard base64, base32, hex and returns the result of the
\* first one that succeeds; when the percent-decoding attempt succeeds its
\* result is returned whatever base64 would give, and no attempt is run after
\* the first success.
C1_FirstSuccessWins == C1_Ordered(OrderedAttempts(accumulated))

\* A candidate on which percent-decoding and base64url both succeed, with
\* different values, and the percent-decoding result was returned.
C1_Witness ==
   /\ pc = "check"
   /\ TryUrlDecoded(accumulated).ok
   /\ TryB64Url(accumulated).ok
   /\ TryB64Std(accumulated).ok
   /\ TryUrlDecoded(accumulated).value # TryB64Url(accumulated).value
   /\ parsed = TryUrlDecoded(accumulated)

IsPrimitive(val) == val.kind \in {"string", "number", "boolean", "null"}

\* The text attempt k hands to JSON.parse (k = 1: percent-decoded, k = 2:
\* the candidate itself).
TextOfAttempt(k, input) ==
   IF k = 1 THEN SafeDecodeURIComponent(input).text ELSE input

\* C2: a value is accepted only if the decoded text parses as JSON and the
\* top-level value is an object or an array; an attempt whose decoded text is
\* a JSON primitive fails, so no accepted result carries a primitive.
C2_OnlyObjectsAndArrays ==
   /\ parsed.ok => /\ parsed.value.kind \in {"object", "array"}
                   /\ JsonParse(parsed.rawText).ok
                   /\ JsonParse(parsed.rawText).val = parsed.value
   /\ \A i \in 1..Len(tried) :
         /\ tried[i][3] => i = Len(tried) /\ parsed.ok
         /\ (tried[i][2] \in {1, 2}
             /\ JsonParse(TextOfAttempt(tried[i][2], accumulated)).ok
             /\ IsPrimitive(JsonParse(TextOfAttempt(tried[i][2], accumulated)).val))
            => ~tried[i][3]

\* The candidate 42: valid JSON, a number, and rejected by every attempt.
C2_Witness ==
   /\ pc = "check"
   /\ ~parsed.ok
   /\ JsonParse(accumulated).ok
   /\ JsonParse(accumulated).val.kind = "number"
   /\ JsonParse(SafeDecodeURIComponent(accumulated).text).ok

\* The request went through the segment scan (a GET or HEAD of a path other
\* than the landing page, past the search for the start index).
Scanned ==
   /\ method \in {"GET", "HEAD"}
   /\ pathname \notin RootPaths
   /\ pc \notin {"start", "route"}

ScanEnded == Scanned /\ pc = "done"

LastTried == tried[Len(tried)]

\* C3: once a candidate has decoded, the response depends only on the length
\* of the decoded text: up to 64,000 characters it is the 200 response with
\* the value, from 64,001 characters it is 413 "Payload too large"; 413 ends
\* the request: the successful attempt is the last one run, no candidate with
\* a larger end index was tried and no step follows.
C3_SizeCeiling ==
   /\ (ScanEnded /\ parsed.ok) =>
         /\ Length(parsed.rawText) <= 64000 =>
               /\ response.status = 200
               /\ response.value = parsed.value
         /\ Length(parsed.rawText) >= 64001 =>
               /\ response.status = 413
               /\ response.error = "Payload too large"
               /\ response.value = NoValue
   /\ response.status = 413 =>
         /\ ScanEnded /\ parsed.ok
         /\ Length(parsed.rawText) >= 64001
         /\ LastTried = <<endIdx, attempt, TRUE>>
         /\ \A i \in 1..Len(tried) : tried[i][1] <= endIdx
         /\ ~ENABLED Next

\* A decoded text of exactly 64,000 characters was answered with 200.
C3_Witness ==
   /\ ScanEnded
   /\ parsed.ok
   /\ Length(parsed.rawText) = 64000
   /\ response.status = 200

\* The trigger prefixes, in lower case.
TriggerPrefixes ==
   {Str(<<"{">>), Str(<<"%", "7", "b">>), Str(<<"7", "b">>), Str(<<"e", "y">>),
    Str(<<"p", "m">>)}

HasTrigger(seg) == \E t \in TriggerPrefixes : StartsWith(ToLowerCase(seg), t)

TriggerIndexes == {i \in 1..Len(parts) : HasTrigger(parts[i])}

NoCandidateFound ==
   /\ response.status = 400
   /\ response.error = "No JSON-like segment found"

\* C4: the start index is the smallest index of a segment that starts, case-
\* insensitively, with a trigger prefix; when no segment does, the response
\* is 400 "No JSON-like segment found" and no decode attempt was made.
C4_StartIndex ==
   /\ Scanned =>
         IF TriggerIndexes # {}
         THEN /\ startIdx + 1 \in TriggerIndexes
              /\ \A i \in TriggerIndexes : startIdx + 1 <= i
              /\ ~NoCandidateFound
         ELSE /\ startIdx = -1
              /\ pc = "done"
              /\ NoCandidateFound
              /\ tried = <<>>
   /\ NoCandidateFound => tried = <<>> /\ Scanned /\ TriggerIndexes = {}
   /\ tried # <<>> => \A i \in 1..Len(tried) : tried[i][1] >= startIdx

\* The start index is that of a segment that matches only case-insensitively,
\* with a plain segment before it and another trigger segment after it.
C4_Witness ==
   /\ Scanned
   /\ startIdx = 1
   /\ ~HasTrigger(parts[1])
   /\ \A t \in TriggerPrefixes : ~StartsWith(parts[2], t)
   /\ \E i \in TriggerIndexes : i > 2

\* The segment is the percent-encoded JSON text of an object.
IsPercentEncodedObject(seg) ==
   /\ StartsWith(ToLowerCase(seg), Str(<<"%", "7", "b">>))
   /\ DecodeURIComponent(seg).kind = "normal"
   /\ JsonParse(DecodeURIComponent(seg).text).ok
   /\ JsonParse(DecodeURIComponent(seg).text).val.kind = "object"

ObjectOf(seg) == JsonParse(DecodeURIComponent(seg).text).val

Success(val) == response.status = 200 /\ response.value = val

\* C5 as stated: a path with a segment that is the percent-encoded text of
\* an object O is answered with O, wherever the segment sits.
C5_AnySegment ==
   ScanEnded =>
      \A i \in 1..Len(parts) :
         IsPercentEncodedObject(parts[i]) => Success(ObjectOf(parts[i]))

\* C5: a path whose first segment with a trigger prefix is the
\* percent-encoded text of an object O of at most 64,000 characters is answered
\* with O, whatever the segments before and after it are.
C5_FirstTriggerSegment ==
   ScanEnded =>
      \A i \in 1..Len(parts) :
         (/\ IsPercentEncodedObject(parts[i])
          /\ \A j \in 1..(i - 1) : ~HasTrigger(parts[j])
          /\ Length(DecodeURIComponent(parts[i]).text) <= 64000)
         => Success(ObjectOf(parts[i]))

\* The encoded object is the second segment, after a plain one and before
\* another trigger segment, and the response carries it.
C5_Witness ==
   /\ ScanEnded
   /\ Len(parts) >= 3
   /\ ~HasTrigger(parts[1])
   /\ IsPercentEncodedObject(parts[2])
   /\ HasTrigger(parts[3])
   /\ Success(ObjectOf(parts[2]))

IsJsonResponse == response.contentType = "application/json; charset=utf-8"

\* C6: every JSON response is public and immutable for 7 days, and the
\* landing page is cached 1 hour in the browser and 1 day at the edge.
C6_CacheHeaders ==
   /\ (pc = "done" /\ IsJsonResponse /\ response.status = 200) =>
         /\ response.cachePublic
         /\ response.immutable
         /\ response.maxAge = 7 * 24 * 3600
   /\ (pc = "done" /\ response.contentType = "text/html; charset=utf-8") =>
         /\ response.maxAge = 3600
         /\ response.sMaxAge = 24 * 3600

\* The candidate with end index e (0-based) of the current request.
CandidateAt(e) == Join(SubSeq(parts, startIdx + 1, e + 1))

Succeeded == response.status = 200 /\ parsed.ok /\ response.value = parsed.value
Rejected  == response.status = 413 /\ response.error = "Payload too large"
IsExhausted ==
   /\ response.status = 400
   /\ response.error = "Could not parse a valid JSON document from the path"

\* Position in the attempt history of attempt k on the candidate ending at e.
TriedIndex(e, k) == (e - startIdx) * 6 + k

\* C7: a scan over candidates ends in exactly one of Succeeded, Rejected and
\* Exhausted.  After Succeeded or Rejected on the candidate ending at e the
\* successful attempt is the last one run and no candidate ending after e was
\* examined; Exhausted comes only after each of the six attempts has failed
\* on every candidate from the start index to the last segment.
C7_TerminalStates ==
   /\ (ScanEnded /\ startIdx >= 0) =>
         /\ Cardinality({o \in {"s", "r", "e"} :
                            \/ o = "s" /\ Succeeded
                            \/ o = "r" /\ Rejected
                            \/ o = "e" /\ IsExhausted}) = 1
         /\ (Succeeded \/ Rejected) =>
               /\ LastTried = <<endIdx, attempt, TRUE>>
               /\ \A i \in 1..Len(tried) : tried[i][1] <= endIdx
               /\ \A i \in 1..(Len(tried) - 1) : ~tried[i][3]
         /\ IsExhausted =>
               /\ ~parsed.ok
               /\ Len(tried) = 6 * (Len(parts) - startIdx)
               /\ \A e \in startIdx..(Len(parts) - 1) : \A k \in 1..6 :
                     /\ tried[TriedIndex(e, k)] = <<e, k, FALSE>>
                     /\ ~OrderedAttempts(CandidateAt(e))[k].ok
   /\ (IsExhausted \/ Rejected \/ (response.status = 200 /\ IsJsonResponse)) =>
         ScanEnded /\ startIdx >= 0
   /\ pc # "done" => response = NoResponse

\* Exhausted after two or more candidates, the start not being the first
\* segment.
C7_Witness ==
   /\ ScanEnded
   /\ IsExhausted
   /\ startIdx >= 1
   /\ Len(parts) - startIdx >= 2
   /\ Len(tried) >= 12

\* The candidate handed to the decoder, and the history of end indexes.
C8_Candidate ==
   /\ Scanned => /\ parts = SelectSeq(Split(TrimSlashes(pathname)), LAMBDA p : p # <<>>)
                 /\ \A i \in 1..Len(parts) : parts[i] # <<>>
   /\ (Scanned /\ pc \in {"try", "check"}) =>
         /\ 0 <= startIdx /\ startIdx <= endIdx /\ endIdx <= Len(parts) - 1
         /\ accumulated = CandidateAt(endIdx)
   /\ (Scanned /\ pc = "loop") =>
         /\ 0 <= startIdx /\ startIdx <= endIdx /\ endIdx <= Len(parts)
         /\ accumulated = CandidateAt(endIdx - 1)
   /\ tried # <<>> =>
         /\ tried[1][1] = startIdx
         /\ \A i \in 1..(Len(tried) - 1) :
               tried[i + 1][1] \in {tried[i][1], tried[i][1] + 1}
         /\ \A i \in 1..Len(tried) : tried[i][1] \in startIdx..(Len(parts) - 1)

\* One step of a scan: the start index and the segments stay, the end index
\* stays or grows by one, and a new candidate is the old one, "/" and the
\* next segment.
C8_Step ==
   pc \in {"loop", "try", "check"} =>
      /\ startIdx' = startIdx
      /\ parts' = parts
      /\ endIdx' \in {endIdx, endIdx + 1}
      /\ accumulated' # accumulated =>
            /\ pc = "loop" /\ pc' = "try"
            /\ accumulated' =
                  IF endIdx = startIdx THEN parts[startIdx + 1]
                  ELSE accumulated \o << <<47, 1>> >> \o parts[endIdx + 1]

\* C8: during a scan the start index never changes, the end index takes the
\* values startIdx, startIdx + 1, ... up to at most the last segment index,
\* and the candidate handed to the decoder is the non-empty segments
\* startIdx..endIdx joined with "/".
C8_CandidateGrowth == []C8_Candidate /\ [][C8_Step]_vars

\* A second candidate is being decoded in a scan that starts after the first
\* segment.
C8_Witness ==
   /\ pc = "try"
   /\ startIdx >= 1
   /\ endIdx >= startIdx + 1
   /\ accumulated = parts[startIdx + 1] \o << <<47, 1>> >> \o parts[endIdx + 1]

\* The last n entries of the attempt history are failed attempts 1..n on the
\* current candidate.
FailedSoFar(n) ==
   /\ Len(tried) >= n
   /\ \A k \in 1..n : tried[Len(tried) - n + k] = <<endIdx, k, FALSE>>

\* C9: a failure inside an attempt is a failed attempt and never leaves
\* tryParseJson: the later attempts are still run on the candidate and the
\* later candidates are still tried, and a request that went through the scan
\* ends as Success, NoCandidateFound, PayloadTooLarge or Exhausted.
C9_FailuresAreIsolated ==
   /\ pc # "uncaught"
   /\ \A i \in 1..Len(tried) : tried[i][2] \in 1..6
   /\ pc = "try" => FailedSoFar(attempt - 1)
   /\ (pc = "check" /\ ~parsed.ok) => FailedSoFar(6)
   /\ (pc = "check" /\ parsed.ok) =>
         /\ Len(tried) >= attempt
         /\ \A k \in 1..attempt :
               tried[Len(tried) - attempt + k] = <<endIdx, k, k = attempt>>
   /\ (pc = "loop" /\ endIdx > startIdx) => FailedSoFar(0) /\ ~parsed.ok
   /\ ScanEnded =>
         \/ (Succeeded /\ parsed.value.kind \in {"object", "array"})
         \/ NoCandidateFound
         \/ Rejected
         \/ IsExhausted
   /\ pc \in {"start", "route", "loop", "try", "check", "done"}

\* A candidate whose percent escape is malformed was decoded by a later
\* attempt and answered with 200.
C9_Witness ==
   /\ ScanEnded
   /\ Succeeded
   /\ DecodeURIComponent(accumulated).kind = "throw"
   /\ attempt >= 3
   /\ tried[Len(tried) - attempt + 1] = <<endIdx, 1, FALSE>>

\* The standard-base64 attempt written out: keep the characters of the
\* class, require "ey", pad to a multiple of 4, decode, parse.
StdBase64Decoded(cleaned) ==
   IF ~StartsWith(ToLowerCase(cleaned), Str(<<"e", "y">>)) THEN Fail
   ELSE FromText(CatchNull(BinaryToUtf8(Atob(PadBase64(cleaned)))))

StdBase64Result(cand, class) == StdBase64Decoded(KeepChars(cand, class))

\* C10 as stated: the standard-base64 attempt removes every character
\* outside A-Z a-z 0-9 + / (a "=" included), requires "ey", pads and decodes.
C10_AlphabetOnly ==
   /\ \A i \in 1..Len(tried) :
         tried[i][2] = 4 =>
            tried[i][3] = StdBase64Result(CandidateAt(tried[i][1]), B64StdAlphabet).ok
   /\ (pc \in {"check", "done"} /\ parsed.ok /\ attempt = 4) =>
         parsed = StdBase64Result(accumulated, B64StdAlphabet)

\* C10: the standard-base64 attempt removes every character outside
\* A-Z a-z 0-9 + / and "=" (a "=" is kept wherever it occurs), requires the
\* cleaned string to start with "ey" case-insensitively, pads it with "=" to
\* a multiple of 4 characters and decodes it.
C10_PaddingKept ==
   /\ \A i \in 1..Len(tried) :
         tried[i][2] = 4 =>
            tried[i][3] = StdBase64Result(CandidateAt(tried[i][1]), B64StdChars).ok
   /\ (pc \in {"check", "done"} /\ parsed.ok /\ attempt = 4) =>
         parsed = StdBase64Result(accumulated, B64StdChars)

\* The attempt failed on a candidate with "=" in its middle that decodes
\* once the "=" is removed.
C10_Witness ==
   /\ pc = "check"
   /\ ~parsed.ok
   /\ tried[Len(tried) - 2] = <<endIdx, 4, FALSE>>
   /\ StdBase64Result(accumulated, B64StdAlphabet).ok
   /\ ~StdBase64Result(accumulated, B64StdChars).ok

============================================================================
